---- MODULE Spec2Model ----
(***************************************************************************)
(* A model of the news-aggregation pipeline of ai-news-research-assistant: *)
(*   Summarizer._chunk_articles, Summarizer.summarize and                  *)
(*   Summarizer.batch_summarize  (news_processor/summarizer.py),           *)
(*   Processor.process_topic and Processor.process_topics                  *)
(*   (news_processor/processor.py), with the parts of                      *)
(*   NewsFetcher.search_news and ContentExtractor.extract_content they     *)
(*   call.                                                                 *)
(*                                                                         *)
(* Each operation has its own specification (SpecChunk, SpecBatch,         *)
(* SpecTopic, SpecTopics); the variables of the other operations stay at   *)
(* their idle values.                                                      *)
(***************************************************************************)
EXTENDS Integers, Sequences, FiniteSets, TLC

VARIABLES
    \* ---- Summarizer._chunk_articles(articles, max_tokens)
    articles,        \* the argument `articles`
    max_tokens,      \* the argument `max_tokens`
    chunk_returns,   \* the values returned by the calls made so far
    \* ---- Summarizer.batch_summarize(contents)
    contents,        \* the argument `contents`
    b_pc,            \* position in batch_summarize
    chunks,          \* local `chunks`
    b_i,             \* number of chunks the loop has finished with
    chunk_summaries, \* local `chunk_summaries`
    gen_log,         \* every generate_content call made: its kind and outcome
    b_ret,           \* how batch_summarize ended: a returned dict or a raise
    \* ---- Processor.process_topic(topic)
    t_pc,            \* position in process_topic
    t_search,        \* what search_news does for this topic
    t_extract,       \* what the page fetch of each link yields
    news_articles,   \* local `news_articles`
    content_tasks,   \* local `content_tasks`
    t_started,       \* number of extract_content calls begun
    articles_with_content, \* local `articles_with_content`, empty until 48-57 run
    t_max_inflight,  \* most extract_content calls ever in progress at once
    t_ret,           \* how process_topic ended
    \* ---- Processor.process_topics(topics)
    topics,          \* the argument `topics`, as the sequence of its keys
    p_search,        \* what search_news does for each topic
    p_extract,       \* what the page fetch of each link yields
    p_gen,           \* what generate_content does in Summarizer.summarize
    p_pc,            \* position in process_topics
    p_i,             \* number of topics the loop has finished with
    results,         \* local `results`
    p_ret,           \* how process_topics ended
    \* ---- ContentExtractor.extract_content(url)
    e_url,           \* the argument `url`
    e_response,      \* what the request for the page yields
    e_pc,            \* position in extract_content
    e_requests,      \* number of session.get calls issued
    e_ret,           \* how extract_content ended
    \* ---- Summarizer.summarize(content)
    z_content,       \* the argument `content`
    z_gen,           \* what generate_content does
    z_pc,            \* position in summarize
    z_ret,           \* how summarize ended
    \* ---- NewsScheduler.process_and_store_news()
    s_users,         \* the active user documents read at 32-33
    s_topics,        \* the active topic documents read at 42-43
    s_search,        \* what search_news does for each topic
    s_fetch,         \* what the page fetch of each link yields
    s_gen,           \* what generate_content does, call after call
    s_pc,            \* position in process_and_store_news
    s_i,             \* number of topics the loop of step 3 has finished with
    s_trace,         \* per topic: candidates, joined articles, digest
    topic_summaries, \* local `topic_summaries`, in insertion order
    s_n,             \* number of send_summary calls finished
    send_log,        \* every send_summary call: topic, user, result
    db_writes,       \* every write of the job to the database
    s_ret,           \* how process_and_store_news ended
    \* ---- NewsScheduler.start() and the job 'weekly_news_processing'
    j_running,       \* the AsyncIOScheduler has been started
    j_registered,    \* number of jobs with the id in the job store
    j_instances,     \* runs of the job in progress
    j_log,           \* what has happened to the job, in order
    \* ---- NewsFetcher.search_news(query)
    f_response,      \* what the request to the search provider yields
    f_pc,            \* position in search_news
    f_ret,           \* how search_news ended
    \* ---- ContentExtractor._extract_title(selector)
    x_sources,       \* what selector.css(...).get() gives for each selector
    x_pc,            \* position in _extract_title
    x_ret,           \* the value _extract_title returned
    \* ---- ContentExtractor._clean_content(content)
    c_content,       \* the argument `content`
    c_pc,            \* position in _clean_content
    c_ret,           \* the value _clean_content returned
    \* ---- the routes /subscribe and /unsubscribe
    users,           \* the documents of the collection 'users'
    handlers,        \* the requests being handled, one per handler
    n_requests,      \* requests received so far
    responses        \* the responses given so far

chunkVars  == <<articles, max_tokens, chunk_returns>>
batchVars  == <<contents, b_pc, chunks, b_i, chunk_summaries, gen_log, b_ret>>
topicVars  == <<t_pc, t_search, t_extract, news_articles, content_tasks,
               t_started, t_max_inflight, articles_with_content, t_ret>>
topicsVars == <<topics, p_search, p_extract, p_gen, p_pc, p_i, results, p_ret>>
extractVars == <<e_url, e_response, e_pc, e_requests, e_ret>>
summarizeVars == <<z_content, z_gen, z_pc, z_ret>>
schedVars  == <<s_users, s_topics, s_search, s_fetch, s_gen, s_pc, s_i, s_trace,
               topic_summaries, s_n, send_log, db_writes, s_ret>>
jobVars    == <<j_running, j_registered, j_instances, j_log>>
fetchVars  == <<f_response, f_pc, f_ret>>
titleVars  == <<x_sources, x_pc, x_ret>>
cleanVars  == <<c_content, c_pc, c_ret>>
usersVars  == <<users, handlers, n_requests, responses>>
helperVars == <<fetchVars, titleVars, cleanVars, usersVars>>
pipelineVars == <<chunkVars, batchVars, topicVars, topicsVars, extractVars,
                  summarizeVars, schedVars, jobVars>>
vars == <<pipelineVars, helperVars>>

\* What an action of one operation leaves alone: the other operations.
NotChunk  == <<batchVars, topicVars, topicsVars, extractVars, summarizeVars,
              schedVars, jobVars, helperVars>>
NotBatch  == <<chunkVars, topicVars, topicsVars, extractVars, summarizeVars,
              schedVars, jobVars, helperVars>>
NotTopic  == <<chunkVars, batchVars, topicsVars, extractVars, summarizeVars,
              schedVars, jobVars, helperVars>>
NotTopics == <<chunkVars, batchVars, topicVars, extractVars, summarizeVars,
              schedVars, jobVars, helperVars>>
NotExtract == <<chunkVars, batchVars, topicVars, topicsVars, summarizeVars,
               schedVars, jobVars, helperVars>>
NotSummarize == <<chunkVars, batchVars, topicVars, topicsVars, extractVars,
                 schedVars, jobVars, helperVars>>
NotSched  == <<chunkVars, batchVars, topicVars, topicsVars, extractVars,
              summarizeVars, jobVars, helperVars>>
NotJob    == <<chunkVars, batchVars, topicVars, topicsVars, extractVars,
              summarizeVars, schedVars,
              helperVars>>
NotFetch  == <<pipelineVars, titleVars, cleanVars, usersVars>>
NotTitle  == <<pipelineVars, fetchVars, cleanVars, usersVars>>
NotClean  == <<pipelineVars, fetchVars, titleVars, usersVars>>
NotUsers  == <<pipelineVars, fetchVars, titleVars, cleanVars>>

(***************************************************************************)
(* Bounds of the model.                                                    *)
(***************************************************************************)
MaxArticles == 3     \* longest article list given to _chunk_articles
MaxTok      == 3     \* largest token count of one formatted article there
MaxBudget   == 4     \* largest max_tokens given to _chunk_articles
MaxCalls    == 2     \* calls of _chunk_articles in one behaviour

(***************************************************************************)
(* Generic helpers.                                                        *)
(***************************************************************************)
None == [kind |-> "None"]

SeqsUpTo(S, n) == UNION {[1..k -> S] : k \in 0..n}

RECURSIVE Concat(_)
Concat(ss) == IF ss = <<>> THEN <<>> ELSE Head(ss) \o Concat(Tail(ss))

RECURSIVE SumTok(_)
SumTok(as) == IF as = <<>> THEN 0 ELSE Head(as).tok + SumTok(Tail(as))

Links == {"https://a", "https://b"}

(***************************************************************************)
(* Summarizer._chunk_articles.                                             *)
(*                                                                         *)
(* An article is a record; its field tok stands for                        *)
(* _count_tokens(article_text), the length of the tokenizer's encoding of  *)
(* the five-line formatted block (summarizer.py 73-81).  The block always  *)
(* holds the labels "Title: ", "Source: ", ..., so tok >= 1.               *)
(***************************************************************************)
ChunkInputArticles == [link : Links, tok : 1..MaxTok]

\* _count_tokens of the formatted block of an article that came through
\* extract_content.  The tokenizer is a library; every body of the model's
\* pages stands for a block of this many tokens.
BodyTokens(content) == 20000

ArticleTokens(article) ==
    IF "tok" \in DOMAIN article THEN article.tok
    ELSE BodyTokens(article.content)

\* Lines 85-90 of the loop body: close the current chunk if `close`, then
\* append the article and add its tokens.
ChunkAppend(st, article, close) ==
    LET s1 == IF close
              THEN [chunks |-> Append(st.chunks, st.current_chunk),
                    current_chunk |-> <<>>, current_tokens |-> 0]
              ELSE st
    IN [chunks |-> s1.chunks,
        current_chunk |-> Append(s1.current_chunk, article),
        current_tokens |-> s1.current_tokens + ArticleTokens(article)]

\* Mutants of the loop body: the limit tested before the article is counted;
\* the test for a non-empty current chunk left out; >= for >.
ChunkLoopBodyLateClose(st, article, max) ==
    ChunkAppend(st, article,
                st.current_tokens > max /\ st.current_chunk # <<>>)

ChunkLoopBodyNoGuard(st, article, max) ==
    ChunkAppend(st, article, st.current_tokens + ArticleTokens(article) > max)

ChunkLoopBodyEager(st, article, max) ==
    ChunkAppend(st, article,
                /\ st.current_tokens + ArticleTokens(article) >= max
                /\ st.current_chunk # <<>>)

\* One pass of the for loop (71-90) on the loop state st.
ChunkLoopBody(st, article, max) ==
    ChunkAppend(st, article,
                /\ st.current_tokens + ArticleTokens(article) > max
                /\ st.current_chunk # <<>>)

RECURSIVE ChunkLoop(_, _, _)
ChunkLoop(st, as, max) ==
    IF as = <<>> THEN st
    ELSE ChunkLoop(ChunkLoopBody(st, Head(as), max), Tail(as), max)

\* _chunk_articles: lines 67-69, the loop, and the last chunk (93-96).
ChunkArticles(as, max) ==
    LET st == ChunkLoop([chunks |-> <<>>, current_chunk |-> <<>>,
                         current_tokens |-> 0], as, max)
    IN IF st.current_chunk # <<>> THEN Append(st.chunks, st.current_chunk)
       ELSE st.chunks

ChunkIdle ==
    /\ articles = <<>>
    /\ max_tokens = 0
    /\ chunk_returns = <<>>

ChunkInit ==
    /\ articles \in SeqsUpTo(ChunkInputArticles, MaxArticles)
    /\ max_tokens \in -1..MaxBudget
    /\ chunk_returns = <<>>

CallChunkArticles ==
    /\ Len(chunk_returns) < MaxCalls
    /\ chunk_returns' = Append(chunk_returns, ChunkArticles(articles, max_tokens))
    /\ UNCHANGED <<articles, max_tokens>>
    /\ UNCHANGED NotChunk

(***************************************************************************)
(* Strings: str.strip().                                                   *)
(***************************************************************************)
IsSpace(c) == c \in {" ", "\n", "\t"}

RECURSIVE LStrip(_)
LStrip(s) ==
    IF Len(s) > 0 /\ IsSpace(SubSeq(s, 1, 1))
    THEN LStrip(SubSeq(s, 2, Len(s))) ELSE s

RECURSIVE RStrip(_)
RStrip(s) ==
    IF Len(s) > 0 /\ IsSpace(SubSeq(s, Len(s), Len(s)))
    THEN RStrip(SubSeq(s, 1, Len(s) - 1)) ELSE s

Strip(s) == RStrip(LStrip(s))

(***************************************************************************)
(* The text-generation provider: one generate_content call either raises   *)
(* or returns a response whose text is empty, blank or prose.              *)
(***************************************************************************)
GenTexts == {"", " ", " s1\n", "s2"}

GenOutcomes ==
    {[kind |-> "raise"]} \cup {[kind |-> "text", text |-> s] : s \in GenTexts}

Return(v) == [kind |-> "return", value |-> v]
Raise(e)  == [kind |-> "raise", exc |-> e]
NoRet     == [kind |-> "none"]

(***************************************************************************)
(* Summarizer.batch_summarize.                                             *)
(***************************************************************************)
MaxTokens   == 50000   \* self.max_tokens
MaxContents == 3       \* longest list given to batch_summarize

\* Token counts that meet the limit of 50000 in every way: two articles that
\* fit with room, two that fit exactly, two that do not, one that is too big.
BatchInputArticles == [link : {"https://a"}, tok : {20000, 30000, 60000}]

\* The handler of batch_summarize (209-215).  Its second statement calls
\* traceback.format_exc(), and the module never imports traceback (4-9):
\* evaluating the name raises NameError, which leaves batch_summarize.
ExceptHandler(cs) == Raise("NameError")

\* Mutant: the digest names the articles of the first chunk only.
DigestFirstChunk(summary, cs, chs) ==
    [summary |-> summary, articles |-> chs[1],
     chunks_processed |-> Len(chs)]

\* The dict returned at 203-207.
Digest(summary, cs, chs) ==
    [summary |-> summary, articles |-> cs, chunks_processed |-> Len(chs)]

BatchIdle ==
    /\ contents = <<>>
    /\ b_pc = "idle"
    /\ chunks = <<>>
    /\ b_i = 0
    /\ chunk_summaries = <<>>
    /\ gen_log = <<>>
    /\ b_ret = NoRet

BatchInit ==
    /\ contents \in SeqsUpTo(BatchInputArticles, MaxContents)
    /\ b_pc = "start"
    /\ chunks = <<>>
    /\ b_i = 0
    /\ chunk_summaries = <<>>
    /\ gen_log = <<>>
    /\ b_ret = NoRet

\* Lines 146-159: the empty input, else the partition into chunks.
BatchStart ==
    /\ b_pc = "start"
    /\ IF contents = <<>>
       THEN /\ b_ret' = Return([summary |-> "No articles to summarize",
                                articles |-> <<>>])
            /\ b_pc' = "done"
            /\ UNCHANGED chunks
       ELSE /\ chunks' = ChunkArticles(contents, MaxTokens)
            /\ b_pc' = "loop"
            /\ UNCHANGED b_ret
    /\ UNCHANGED <<contents, b_i, chunk_summaries, gen_log>>
    /\ UNCHANGED NotBatch

\* One pass of the loop over the chunks (163-181): one generate_content call.
\* Nothing in the loop catches an exception of the call, so it reaches the
\* handler of the whole function.
BatchChunk ==
    /\ b_pc = "loop"
    /\ b_i < Len(chunks)
    /\ \E o \in GenOutcomes :
         /\ gen_log' = Append(gen_log, [call |-> "chunk", index |-> b_i + 1,
                                        outcome |-> o])
         /\ IF o.kind = "raise"
            THEN /\ b_ret' = ExceptHandler(contents)
                 /\ b_pc' = "done"
                 /\ UNCHANGED <<b_i, chunk_summaries>>
            ELSE /\ chunk_summaries' =
                       IF o.text # ""
                       THEN Append(chunk_summaries, Strip(o.text))
                       ELSE chunk_summaries
                 /\ b_i' = b_i + 1
                 /\ UNCHANGED <<b_ret, b_pc>>
    /\ UNCHANGED <<contents, chunks>>
    /\ UNCHANGED NotBatch

\* The token count of combined_content (167-174) for a chunk: the blocks of
\* its articles and, between two blocks, the separator, which the tokenizer
\* gives separator_tokens tokens.
RECURSIVE BlockTokens(_)
BlockTokens(chunk) ==
    IF chunk = <<>> THEN 0
    ELSE ArticleTokens(Head(chunk)) + BlockTokens(Tail(chunk))

JoinedTokens(chunk, separator_tokens) ==
    BlockTokens(chunk) + separator_tokens * (Len(chunk) - 1)

\* Line 191.
NeedsCombine(summaries) == Len(summaries) > 1

\* After the loop (183-207): no summary at all, several summaries to
\* combine, or the single summary returned as it is.
BatchAfterLoop ==
    /\ b_pc = "loop"
    /\ b_i = Len(chunks)
    /\ IF chunk_summaries = <<>>
       THEN /\ b_ret' = Return([summary |-> "Failed to generate summaries",
                                articles |-> contents])
            /\ b_pc' = "done"
       ELSE IF NeedsCombine(chunk_summaries)
       THEN /\ b_pc' = "combine"
            /\ UNCHANGED b_ret
       ELSE /\ b_ret' = Return(Digest(chunk_summaries[1], contents, chunks))
            /\ b_pc' = "done"
    /\ UNCHANGED <<contents, chunks, b_i, chunk_summaries, gen_log>>
    /\ UNCHANGED NotBatch

\* The combine call (193-207).
BatchCombine ==
    /\ b_pc = "combine"
    /\ \E o \in GenOutcomes :
         /\ gen_log' = Append(gen_log, [call |-> "combine", index |-> 0,
                                        outcome |-> o])
         /\ b_ret' =
              IF o.kind = "raise" THEN ExceptHandler(contents)
              ELSE Return(Digest(IF o.text # "" THEN Strip(o.text)
                                 ELSE "Failed to combine summaries",
                                 contents, chunks))
         /\ b_pc' = "done"
    /\ UNCHANGED <<contents, chunks, b_i, chunk_summaries>>
    /\ UNCHANGED NotBatch

(***************************************************************************)
(* Dicts: d.get(k, default) and {**a, **b}.                                *)
(***************************************************************************)
DictGet(d, k, default) == IF k \in DOMAIN d THEN d[k] ELSE default

Merge(a, b) ==
    [k \in DOMAIN a \cup DOMAIN b |-> IF k \in DOMAIN b THEN b[k] ELSE a[k]]

(***************************************************************************)
(* NewsFetcher.search_news: the provider call raises (a transport error, a *)
(* non-2xx status, a body that is not JSON) or yields news_results, each   *)
(* result a dict that may lack fields.                                     *)
(***************************************************************************)
MaxResults == 2      \* longest news_results list of the provider

ProviderResults ==
    {[title |-> "A", link |-> "https://a", source |-> "SA"],
     [title |-> "B", link |-> "https://b"],
     [title |-> "C"]}

SearchOutcomes ==
    {[kind |-> "raise"]} \cup
    {[kind |-> "results", news_results |-> rs] :
        rs \in SeqsUpTo(ProviderResults, MaxResults)}

\* Mutant: a result without a link gets a placeholder for it.
FormatArticleLinkPlaceholder(article) ==
    [title     |-> DictGet(article, "title", ""),
     link      |-> DictGet(article, "link", "N/A"),
     source    |-> DictGet(article, "source", ""),
     date      |-> DictGet(article, "date", ""),
     snippet   |-> DictGet(article, "snippet", ""),
     thumbnail |-> DictGet(article, "thumbnail", "")]

\* Lines 70-77.
FormatArticle(article) ==
    [title     |-> DictGet(article, "title", ""),
     link      |-> DictGet(article, "link", ""),
     source    |-> DictGet(article, "source", ""),
     date      |-> DictGet(article, "date", ""),
     snippet   |-> DictGet(article, "snippet", ""),
     thumbnail |-> DictGet(article, "thumbnail", "")]

\* Lines 65-81, given that the request succeeded.
FormatResults(news_results) ==
    [i \in 1..Len(news_results) |-> FormatArticle(news_results[i])]

(***************************************************************************)
(* ContentExtractor.extract_content.  A fetch of a valid URL fails, or     *)
(* yields a page with a title and a cleaned body, which may be empty.      *)
(***************************************************************************)
Pages ==
    {[kind |-> "error"],
     [kind |-> "page", title |-> "T", cleaned_content |-> ""],
     [kind |-> "page", title |-> "T", cleaned_content |-> "body"]}

RECURSIVE Find(_, _, _)
\* The least index >= i at which c stands in s, or 0.
Find(s, c, i) ==
    IF i > Len(s) THEN 0
    ELSE IF SubSeq(s, i, i) = c THEN i ELSE Find(s, c, i + 1)

\* The least index >= i at which one of the texts of cs stands in s, or 0.
RECURSIVE FindAny(_, _, _)
FindAny(s, cs, i) ==
    IF i > Len(s) THEN 0
    ELSE IF SubSeq(s, i, i) \in cs THEN i ELSE FindAny(s, cs, i + 1)

Letters ==
    {"a", "b", "c", "d", "e", "f", "g", "h", "i", "j", "k", "l", "m",
     "n", "o", "p", "q", "r", "s", "t", "u", "v", "w", "x", "y", "z"}

\* urllib's scheme_chars, for the lower-case texts of the model.
SchemeChars ==
    Letters \cup {"0", "1", "2", "3", "4", "5", "6", "7", "8", "9",
                  "+", "-", "."}

\* Mutant: only the scheme is looked at.
IsValidUrlSchemeOnly(url) ==
    LET colon == Find(url, ":", 1)
    IN /\ colon > 1
       /\ SubSeq(url, 1, 1) \in Letters
       /\ \A k \in 1..(colon - 1) : SubSeq(url, k, k) \in SchemeChars

\* _is_valid_url (73-79): urlparse(url) has a scheme (the text before the
\* first ':', made of scheme characters and beginning with a letter) and a
\* netloc (the text after '//' up to the next '/', '?' or '#').
IsValidUrl(url) ==
    LET colon == Find(url, ":", 1)
        rest  == SubSeq(url, colon + 1, Len(url))
        delim == FindAny(rest, {"/", "?", "#"}, 3)
        netloc == SubSeq(rest, 3, IF delim = 0 THEN Len(rest) ELSE delim - 1)
    IN /\ colon > 1
       /\ SubSeq(url, 1, 1) \in Letters
       /\ \A k \in 1..(colon - 1) : SubSeq(url, k, k) \in SchemeChars
       /\ Len(rest) >= 2
       /\ SubSeq(rest, 1, 2) = "//"
       /\ netloc # ""

\* Mutant: the test of 56-58 for an empty cleaned body is left out.
ExtractContentKeepEmpty(url, fetch) ==
    IF ~IsValidUrl(url) THEN None
    ELSE LET page == fetch[url]
         IN IF page.kind = "error" THEN None
            ELSE [title |-> page.title,
                  content |-> page.cleaned_content,
                  url |-> url]

\* extract_content (30-71) for a fetch that behaves as fetch[url] says.
ExtractContent(url, fetch) ==
    IF ~IsValidUrl(url) THEN None
    ELSE LET page == fetch[url]
         IN IF page.kind = "error" THEN None
            ELSE IF page.cleaned_content = "" THEN None
            ELSE [title |-> page.title,
                  content |-> page.cleaned_content,
                  url |-> url]

(***************************************************************************)
(* Summarizer.summarize (98-133).                                          *)
(***************************************************************************)
Summarize(content, gen) ==
    IF content = None THEN None
    ELSE IF DictGet(content, "content", "") = "" THEN None
    ELSE IF gen.kind = "raise" THEN None
    ELSE IF gen.text = "" THEN None
    ELSE Merge(content, [summary |-> Strip(gen.text)])

(***************************************************************************)
(* Processor.process_topic (20-76).                                        *)
(***************************************************************************)
TopicArg == "AI"

\* asyncio.gather accepts coroutines, tasks and futures.  extract_content
\* has already been awaited when content_tasks is built (41-44), so every
\* element is its result: a dict or None.
IsAwaitable(x) == "kind" \in DOMAIN x /\ x.kind = "coroutine"

\* The join of lines 48-57.
RECURSIVE JoinContent(_, _)
JoinContent(news, content_results) ==
    IF news = <<>> THEN <<>>
    ELSE LET article == Head(news)
             content == Head(content_results)
             rest == JoinContent(Tail(news), Tail(content_results))
         IN IF DictGet(content, "kind", "") = "exception" THEN rest
            ELSE IF content # None THEN <<Merge(article, content)>> \o rest
            ELSE rest

\* Lines 59-72, the ways they can end.  batch_summarize returns a dict or
\* raises NameError; the loop of 67-69 walks the keys of the dict, which are
\* strings, and assigning article['processed_at'] on a string raises
\* TypeError.
TopicAfterGather(news, content_results) ==
    IF JoinContent(news, content_results) = <<>>
    THEN {Return(<<>>)}
    ELSE {Raise("NameError"), Raise("TypeError")}

TopicIdle ==
    /\ t_pc = "idle"
    /\ t_search = [kind |-> "raise"]
    /\ t_extract = <<>>
    /\ news_articles = <<>>
    /\ content_tasks = <<>>
    /\ t_started = 0
    /\ t_max_inflight = 0
    /\ articles_with_content = <<>>
    /\ t_ret = NoRet

TopicInit ==
    /\ t_pc = "fetch"
    /\ t_search \in SearchOutcomes
    /\ t_extract \in [Links -> Pages]
    /\ news_articles = <<>>
    /\ content_tasks = <<>>
    /\ t_started = 0
    /\ t_max_inflight = 0
    /\ articles_with_content = <<>>
    /\ t_ret = NoRet

\* Lines 35-38; an exception of search_news is logged and raised again
\* (74-76).
TopicFetch ==
    /\ t_pc = "fetch"
    /\ IF t_search.kind = "raise"
       THEN /\ t_ret' = Raise("ClientError")
            /\ t_pc' = "done"
            /\ UNCHANGED news_articles
       ELSE IF t_search.news_results = <<>>
       THEN /\ t_ret' = Return(<<>>)
            /\ t_pc' = "done"
            /\ UNCHANGED news_articles
       ELSE /\ news_articles' = FormatResults(t_search.news_results)
            /\ t_pc' = "extract"
            /\ UNCHANGED t_ret
    /\ UNCHANGED <<t_search, t_extract, content_tasks, t_started,
                   t_max_inflight, articles_with_content>>
    /\ UNCHANGED NotTopic

\* The list comprehension of 41-44 awaits each extract_content call where it
\* makes it: the call for the next article begins only when every earlier
\* call has completed.
MayStartExtract(started, completed, total) ==
    started < total /\ started = completed

\* extract_content for the next article is called (42).
TopicExtractStart ==
    /\ t_pc = "extract"
    /\ MayStartExtract(t_started, Len(content_tasks), Len(news_articles))
    /\ t_started' = t_started + 1
    /\ t_max_inflight' =
         IF t_started + 1 - Len(content_tasks) > t_max_inflight
         THEN t_started + 1 - Len(content_tasks) ELSE t_max_inflight
    /\ UNCHANGED <<t_pc, t_search, t_extract, news_articles, content_tasks,
                   articles_with_content, t_ret>>
    /\ UNCHANGED NotTopic

\* The awaited call completes and its result becomes the next element of
\* content_tasks.
TopicExtract ==
    /\ t_pc = "extract"
    /\ Len(content_tasks) < t_started
    /\ content_tasks' =
         Append(content_tasks,
                ExtractContent(news_articles[Len(content_tasks) + 1].link,
                               t_extract))
    /\ UNCHANGED <<t_pc, t_search, t_extract, news_articles, t_started,
                   t_max_inflight, articles_with_content, t_ret>>
    /\ UNCHANGED NotTopic

\* Line 45 and what follows.  gather raises TypeError for an argument that
\* is not awaitable; the handler of 74-76 raises it again.
TopicGather ==
    /\ t_pc = "extract"
    /\ Len(content_tasks) = Len(news_articles)
    /\ IF \E i \in 1..Len(content_tasks) : ~IsAwaitable(content_tasks[i])
       THEN /\ t_ret' = Raise("TypeError")
            /\ UNCHANGED articles_with_content
       ELSE /\ articles_with_content' =
                 JoinContent(news_articles, content_tasks)
            /\ t_ret' \in TopicAfterGather(news_articles, content_tasks)
    /\ t_pc' = "done"
    /\ UNCHANGED <<t_search, t_extract, news_articles, content_tasks,
                   t_started, t_max_inflight>>
    /\ UNCHANGED NotTopic

(***************************************************************************)
(* Processor.process_topics (78-145).                                      *)
(***************************************************************************)
TopicNames == {"AI", "Climate"}

TopicLists ==
    {ts \in SeqsUpTo(TopicNames, Cardinality(TopicNames)) :
        \A i, j \in 1..Len(ts) : i # j => ts[i] # ts[j]}

Range(s) == {s[i] : i \in 1..Len(s)}

\* One pass of the inner loop (103-134).
ProcessArticle(processed_articles, article, fetch, gen) ==
    IF ~("url" \in DOMAIN article /\ article.url # "")
    THEN processed_articles
    ELSE LET content == ExtractContent(article.url, fetch)
         IN IF content = None THEN processed_articles
            ELSE Append(processed_articles,
                        Merge(article,
                              [content |-> content,
                               summary |-> Summarize(content, gen)]))

RECURSIVE ProcessArticles(_, _, _, _)
ProcessArticles(processed_articles, as, fetch, gen) ==
    IF as = <<>> THEN processed_articles
    ELSE ProcessArticles(ProcessArticle(processed_articles, Head(as), fetch, gen),
                         Tail(as), fetch, gen)

\* Mutant: the handler of a failed topic stores nothing for it.
OnTopicErrorNoKey(res, topic_value) == res

\* Lines 140-143.
OnTopicError(res, topic_value) == (topic_value :> <<>>) @@ res

\* One pass of the loop over the topics (90-143).
ProcessTopicsBody(res, topic_value, search, fetch, gen) ==
    IF search.kind = "raise" THEN OnTopicError(res, topic_value)
    ELSE LET as == FormatResults(search.news_results)
         IN IF as = <<>> THEN (topic_value :> <<>>) @@ res
            ELSE (topic_value :> ProcessArticles(<<>>, as, fetch, gen)) @@ res

\* process_topics run to its end on the topics ts.
RECURSIVE ProcessTopicsRun(_, _, _, _, _)
ProcessTopicsRun(res, ts, search, fetch, gen) ==
    IF ts = <<>> THEN res
    ELSE ProcessTopicsRun(
             ProcessTopicsBody(res, Head(ts), search[Head(ts)], fetch, gen),
             Tail(ts), search, fetch, gen)

TopicsIdle ==
    /\ topics = <<>>
    /\ p_search = <<>>
    /\ p_extract = <<>>
    /\ p_gen = [kind |-> "raise"]
    /\ p_pc = "idle"
    /\ p_i = 0
    /\ results = <<>>
    /\ p_ret = NoRet

TopicsInit ==
    /\ topics \in TopicLists
    /\ p_search \in [Range(topics) -> SearchOutcomes]
    /\ p_extract \in [Links -> Pages]
    /\ p_gen \in {[kind |-> "raise"], [kind |-> "text", text |-> ""],
                  [kind |-> "text", text |-> " s1\n"]}
    /\ p_pc = "loop"
    /\ p_i = 0
    /\ results = <<>>
    /\ p_ret = NoRet

ProcessTopicsIteration ==
    /\ p_pc = "loop"
    /\ p_i < Len(topics)
    /\ results' = ProcessTopicsBody(results, topics[p_i + 1],
                                    p_search[topics[p_i + 1]], p_extract, p_gen)
    /\ p_i' = p_i + 1
    /\ UNCHANGED <<topics, p_search, p_extract, p_gen, p_pc, p_ret>>
    /\ UNCHANGED NotTopics

\* Line 145.
ProcessTopicsReturn ==
    /\ p_pc = "loop"
    /\ p_i = Len(topics)
    /\ p_ret' = Return(results)
    /\ p_pc' = "done"
    /\ UNCHANGED <<topics, p_search, p_extract, p_gen, p_i, results>>
    /\ UNCHANGED NotTopics

(***************************************************************************)
(* ContentExtractor.extract_content (20-71), step by step: the URL is      *)
(* validated, the page is requested, the body is parsed.                   *)
(***************************************************************************)
Urls ==
    {"", "a.com/x", "//host/x", "https://", "https:///x", "https://?q",
     "mailto:u", "1x://a", "https://a", "http://b.org/p?q", "ftp://c#f"}

Statuses == {200, 300, 404, 500}

\* What session.get and response.text() give: no response (a transport
\* error, the timeout of 10 seconds), or a response with a status whose body
\* cannot be decoded or holds a page with this title and this cleaned body.
Responses ==
    {[kind |-> "ClientError"], [kind |-> "TimeoutError"]}
    \cup [kind : {"response"}, status : Statuses,
          body : {[kind |-> "undecodable"]} \cup
                 [kind : {"page"}, title : {"T", "Untitled"},
                  cleaned_content : {"", "body"}]]

\* response.raise_for_status() (41): ClientResponseError from status 400 on.
RaiseForStatus(status) == status >= 400

\* The exception lines 39-42 end with, or "" when html has been read.
FetchException(response) ==
    IF response.kind # "response" THEN response.kind
    ELSE IF RaiseForStatus(response.status) THEN "ClientResponseError"
    ELSE IF response.body.kind = "undecodable" THEN "UnicodeDecodeError"
    ELSE ""

\* Mutant: only the handler for aiohttp.ClientError is there.
OnExtractErrorClientOnly(exception) ==
    IF exception \in {"ClientError", "ClientResponseError"}
    THEN Return(None) ELSE Raise(exception)

\* The handlers of 66-71: ClientError and every other Exception give None.
OnExtractError(exception) == Return(None)

\* The page of the whole-call model that a response amounts to.
PageOf(response) ==
    IF FetchException(response) # "" THEN [kind |-> "error"]
    ELSE [kind |-> "page", title |-> response.body.title,
          cleaned_content |-> response.body.cleaned_content]

ExtractIdle ==
    /\ e_url = ""
    /\ e_response = None
    /\ e_pc = "idle"
    /\ e_requests = 0
    /\ e_ret = NoRet

ExtractInit ==
    /\ e_url \in Urls
    /\ e_response = None
    /\ e_pc = "validate"
    /\ e_requests = 0
    /\ e_ret = NoRet

\* Lines 33-36.
ExtractValidate ==
    /\ e_pc = "validate"
    /\ IF ~IsValidUrl(e_url)
       THEN e_pc' = "done" /\ e_ret' = Return(None)
       ELSE e_pc' = "fetch" /\ UNCHANGED e_ret
    /\ UNCHANGED <<e_url, e_response, e_requests>>
    /\ UNCHANGED NotExtract

\* Lines 39-42: the one request of the call.
ExtractFetch ==
    /\ e_pc = "fetch"
    /\ \E response \in Responses :
         /\ e_response' = response
         /\ IF FetchException(response) # ""
            THEN /\ e_pc' = "done"
                 /\ e_ret' = OnExtractError(FetchException(response))
            ELSE e_pc' = "parse" /\ UNCHANGED e_ret
    /\ e_requests' = e_requests + 1
    /\ UNCHANGED e_url
    /\ UNCHANGED NotExtract

\* Lines 45-64.
ExtractParse ==
    /\ e_pc = "parse"
    /\ e_pc' = "done"
    /\ e_ret' = IF e_response.body.cleaned_content = ""
                THEN Return(None)
                ELSE Return([title |-> e_response.body.title,
                             content |-> e_response.body.cleaned_content,
                             url |-> e_url])
    /\ UNCHANGED <<e_url, e_response, e_requests>>
    /\ UNCHANGED NotExtract

(***************************************************************************)
(* Summarizer.summarize (98-133) as a call.                                *)
(***************************************************************************)
\* A generation call that returns this text.
GenText(t) == [kind |-> "text", text |-> t]

SummarizeContents ==
    {None, [title |-> "T"], [title |-> "T", content |-> ""],
     [content |-> "body"], [title |-> "T", content |-> "body"],
     [title |-> "T", content |-> "body", url |-> "https://a"],
     [title |-> "T", content |-> "body", url |-> "https://a",
      summary |-> "old"],
     [title |-> "U", content |-> "text", link |-> "https://b",
      source |-> "SB"]}

SummarizeGen ==
    {[kind |-> "raise"]} \cup
    {GenText(t) : t \in {"", " ", " s1\n", "s2", "s3 ", "\ts4", "a b"}}

SummarizeIdle ==
    /\ z_content = None
    /\ z_gen = [kind |-> "raise"]
    /\ z_pc = "idle"
    /\ z_ret = NoRet

SummarizeInit ==
    /\ z_content \in SummarizeContents
    /\ z_gen \in SummarizeGen
    /\ z_pc = "call"
    /\ z_ret = NoRet

\* Mutant: the handler of 131-133 logs and raises again.
OnSummarizeErrorReraise(exception) == Raise(exception)

\* The handler of 131-133.
OnSummarizeError(exception) == Return(None)

\* generate_content is called when the content test of 109-111 has passed.
SummarizeCall ==
    /\ z_pc = "call"
    /\ z_pc' = "done"
    /\ z_ret' = IF /\ z_content # None
                  /\ DictGet(z_content, "content", "") # ""
                  /\ z_gen.kind = "raise"
               THEN OnSummarizeError("Exception")
               ELSE Return(Summarize(z_content, z_gen))
    /\ UNCHANGED <<z_content, z_gen>>
    /\ UNCHANGED NotSummarize

(***************************************************************************)
(* Summarizer.batch_summarize as a function of its input and of what the   *)
(* generation calls do: gen[k] is the outcome of the k-th call.            *)
(***************************************************************************)
\* The loop over the chunks (163-181), from chunk k on.
RECURSIVE BatchLoop(_, _, _, _)
BatchLoop(chs, gen, k, summaries) ==
    IF k > Len(chs) THEN [raised |-> FALSE, summaries |-> summaries]
    ELSE IF gen[k].kind = "raise"
    THEN [raised |-> TRUE, summaries |-> summaries]
    ELSE BatchLoop(chs, gen, k + 1,
                   IF gen[k].text # ""
                   THEN Append(summaries, Strip(gen[k].text))
                   ELSE summaries)

BatchSummarize(cs, gen) ==
    IF cs = <<>>
    THEN Return([summary |-> "No articles to summarize", articles |-> <<>>])
    ELSE LET chs == ChunkArticles(cs, MaxTokens)
             loop == BatchLoop(chs, gen, 1, <<>>)
             final == gen[Len(chs) + 1]
         IN IF loop.raised THEN ExceptHandler(cs)
            ELSE IF loop.summaries = <<>>
            THEN Return([summary |-> "Failed to generate summaries",
                         articles |-> cs])
            ELSE IF NeedsCombine(loop.summaries)
            THEN IF final.kind = "raise" THEN ExceptHandler(cs)
                 ELSE Return(Digest(IF final.text # ""
                                    THEN Strip(final.text)
                                    ELSE "Failed to combine summaries",
                                    cs, chs))
            ELSE Return(Digest(loop.summaries[1], cs, chs))

(***************************************************************************)
(* EmailService.send_summary (99-145): the POST to the mail provider       *)
(* answers 201, answers another status, or raises; the handler of 142-145  *)
(* turns an exception into False.                                          *)
(***************************************************************************)
PostOutcomes ==
    {[kind |-> "status", code |-> 201],
     [kind |-> "status", code |-> 500],
     [kind |-> "raise"]}

SendSummary(post) == post.kind = "status" /\ post.code = 201

(***************************************************************************)
(* NewsScheduler.process_and_store_news (26-154).                          *)
(***************************************************************************)
SchedLinks == {"https://a", "https://b", "https://c"}

SchedResults ==
    << [title |-> "A", link |-> "https://a", source |-> "SA",
        date |-> "1 day ago", snippet |-> "sa"],
       [title |-> "B", link |-> "https://b", source |-> "SB",
        date |-> "2 days ago", snippet |-> "sb"],
       [title |-> "C", link |-> "https://c", source |-> "SC"] >>

SchedSearchOutcomes ==
    {[kind |-> "raise"],
     [kind |-> "results", news_results |-> <<>>],
     [kind |-> "results", news_results |-> SchedResults],
     [kind |-> "results", news_results |-> <<SchedResults[2], [title |-> "D"]>>]}

TopicDoc(name) == [name |-> name, searchTerms |-> name, isActive |-> TRUE]

SchedTopicLists ==
    {<<>>, <<TopicDoc("AI")>>, <<TopicDoc("AI"), TopicDoc("Climate")>>}

UserDoc(email, topic) ==
    [email |-> email, topic |-> topic, status |-> "active"]

SchedUserLists ==
    {<<>>,
     <<UserDoc("u1", "AI")>>,
     <<UserDoc("u1", "AI"), UserDoc("u2", "AI")>>,
     <<UserDoc("u1", "AI"), UserDoc("u3", "Climate")>>,
     <<UserDoc("u3", "Climate"), UserDoc("u1", "AI"), UserDoc("u4", "Sports"),
       UserDoc("u2", "AI")>>}

\* What the generation calls of one batch_summarize do, call after call.
GenPlans ==
    {<<GenText(" s1\n"), GenText("s2"), GenText("s3 ")>>,
     <<GenText(""), GenText(""), GenText("s3 ")>>,
     <<[kind |-> "raise"], GenText("s2"), GenText("s3 ")>>,
     <<GenText(" s1\n"), GenText("s2"), GenText("")>>,
     <<GenText(" "), GenText(""), GenText("s3 ")>>}

\* One pass of the loop of 72-83, content being what extract_content
\* returned for the article.
SchedJoinStep(processed_articles, article, content) ==
    IF content # None
    THEN Append(processed_articles, Merge(article, content))
    ELSE processed_articles

\* The loop of 71-83.
RECURSIVE SchedJoin(_, _, _)
SchedJoin(processed_articles, as, fetch) ==
    IF as = <<>> THEN processed_articles
    ELSE SchedJoin(SchedJoinStep(processed_articles, Head(as),
                                 ExtractContent(Head(as).link, fetch)),
                   Tail(as), fetch)

\* Line 91: not summary_result.get('summary').
SummaryMissing(summary_result) == DictGet(summary_result, "summary", "") = ""

\* One pass of the loop over the topics (54-104): what it found and whether
\* it stored a digest for the topic.
SchedTopicBody(topic_data, search, fetch, gen) ==
    LET none == [topic |-> topic_data.name, articles |-> <<>>,
                 processed_articles |-> <<>>, summarized |-> FALSE,
                 summary_result |-> NoRet, stored |-> FALSE]
    IN IF search.kind = "raise" THEN none
       ELSE LET as == FormatResults(search.news_results)
                joined == SchedJoin(<<>>, as, fetch)
                res == BatchSummarize(joined, gen)
            IN IF as = <<>> THEN none
               ELSE IF joined = <<>> THEN [none EXCEPT !.articles = as]
               ELSE [none EXCEPT
                       !.articles = as,
                       !.processed_articles = joined,
                       !.summarized = TRUE,
                       !.summary_result = res,
                       !.stored = /\ res.kind = "return"
                                  /\ ~SummaryMissing(res.value)]

\* Lines 117-130: the send_summary calls of step 4, in order.
\* Mutant: the users are not filtered by topic.
TopicUsersAll(users_data, topic) == users_data

RECURSIVE TopicUsers(_, _)
TopicUsers(users_data, topic) ==
    IF users_data = <<>> THEN <<>>
    ELSE (IF DictGet(Head(users_data), "topic", "") = topic
          THEN <<Head(users_data)>> ELSE <<>>)
         \o TopicUsers(Tail(users_data), topic)

RECURSIVE SendPlan(_, _)
SendPlan(summaries, users_data) ==
    IF summaries = <<>> THEN <<>>
    ELSE LET entry == Head(summaries)
             tu == TopicUsers(users_data, entry.topic)
         IN [n \in 1..Len(tu) |-> [topic |-> entry.topic,
                                   summary |-> entry.summary,
                                   articles |-> entry.articles,
                                   email |-> tu[n].email]]
            \o SendPlan(Tail(summaries), users_data)

SchedIdle ==
    /\ s_users = <<>>
    /\ s_topics = <<>>
    /\ s_search = <<>>
    /\ s_fetch = <<>>
    /\ s_gen = <<>>
    /\ s_pc = "idle"
    /\ s_i = 0
    /\ s_trace = <<>>
    /\ topic_summaries = <<>>
    /\ s_n = 0
    /\ send_log = <<>>
    /\ db_writes = <<>>
    /\ s_ret = NoRet

SchedInit ==
    /\ s_users \in SchedUserLists
    /\ s_topics \in SchedTopicLists
    /\ s_search \in [{s_topics[i].name : i \in 1..Len(s_topics)} ->
                        SchedSearchOutcomes]
    /\ s_fetch \in [SchedLinks -> Pages]
    /\ s_gen \in GenPlans
    /\ s_pc = "start"
    /\ s_i = 0
    /\ s_trace = <<>>
    /\ topic_summaries = <<>>
    /\ s_n = 0
    /\ send_log = <<>>
    /\ db_writes = <<>>
    /\ s_ret = NoRet

\* Steps 1 and 2 (31-49): nothing is done without active users or topics.
SchedStart ==
    /\ s_pc = "start"
    /\ IF s_users = <<>> \/ s_topics = <<>>
       THEN s_pc' = "done" /\ s_ret' = Return(None)
       ELSE s_pc' = "topics" /\ UNCHANGED s_ret
    /\ UNCHANGED <<s_users, s_topics, s_search, s_fetch, s_gen, s_i, s_trace,
                   topic_summaries, s_n, send_log, db_writes>>
    /\ UNCHANGED NotSched

\* Mutant: a topic that gave no digest ends the loop over the topics.
NextTopicIndexAbort(i, r, n) == IF r.stored THEN i + 1 ELSE n

\* The `continue` of 66, 87, 93 and 104 and the end of the loop body: the
\* loop goes on with the next topic, whatever the pass r over topic i + 1
\* of n gave.
NextTopicIndex(i, r, n) == i + 1

\* Step 3 for the next topic (54-104).  Nothing in it writes to the
\* database.
SchedTopic ==
    /\ s_pc = "topics"
    /\ s_i < Len(s_topics)
    /\ LET topic_data == s_topics[s_i + 1]
           r == SchedTopicBody(topic_data, s_search[topic_data.name],
                               s_fetch, s_gen)
       IN /\ s_trace' = Append(s_trace, r)
          /\ topic_summaries' =
               IF r.stored
               THEN Append(topic_summaries,
                           [topic |-> r.topic,
                            summary |-> r.summary_result.value.summary,
                            articles |-> r.processed_articles])
               ELSE topic_summaries
    /\ s_i' = NextTopicIndex(s_i,
                             SchedTopicBody(s_topics[s_i + 1],
                                            s_search[s_topics[s_i + 1].name],
                                            s_fetch, s_gen),
                             Len(s_topics))
    /\ UNCHANGED <<s_users, s_topics, s_search, s_fetch, s_gen, s_pc, s_n,
                   send_log, db_writes, s_ret>>
    /\ UNCHANGED NotSched

\* Line 107: with no digest at all the job ends, else step 4 begins.
SchedTopicsDone ==
    /\ s_pc = "topics"
    /\ s_i = Len(s_topics)
    /\ IF topic_summaries = <<>>
       THEN s_pc' = "done" /\ s_ret' = Return(None)
       ELSE s_pc' = "send" /\ UNCHANGED s_ret
    /\ UNCHANGED <<s_users, s_topics, s_search, s_fetch, s_gen, s_i, s_trace,
                   topic_summaries, s_n, send_log, db_writes>>
    /\ UNCHANGED NotSched

\* Mutant: a delivery that failed ends the distribution.
AfterSendStopOnFailure(email_sent) == IF email_sent THEN "next" ELSE "stop"

\* Lines 139-146: whatever send_summary gave, the loop goes on.
AfterSend(email_sent) == "next"

\* One send_summary call of step 4 (130-146).
SchedSend ==
    /\ s_pc = "send"
    /\ s_n < Len(SendPlan(topic_summaries, s_users))
    /\ \E post \in PostOutcomes :
         LET call == SendPlan(topic_summaries, s_users)[s_n + 1]
             email_sent == SendSummary(post)
         IN /\ send_log' = Append(send_log,
                                  Merge(call, [post |-> post,
                                               email_sent |-> email_sent]))
            /\ IF AfterSend(email_sent) = "next"
               THEN s_n' = s_n + 1 /\ UNCHANGED <<s_pc, s_ret>>
               ELSE /\ s_pc' = "done"
                    /\ s_ret' = Raise("Exception")
                    /\ UNCHANGED s_n
    /\ UNCHANGED <<s_users, s_topics, s_search, s_fetch, s_gen, s_i, s_trace,
                   topic_summaries, db_writes>>
    /\ UNCHANGED NotSched

\* Lines 148-150.
SchedFinish ==
    /\ s_pc = "send"
    /\ s_n = Len(SendPlan(topic_summaries, s_users))
    /\ s_pc' = "done"
    /\ s_ret' = Return(None)
    /\ UNCHANGED <<s_users, s_topics, s_search, s_fetch, s_gen, s_i, s_trace,
                   topic_summaries, s_n, send_log, db_writes>>
    /\ UNCHANGED NotSched

(***************************************************************************)
(* NewsScheduler.start (156-174) and the runs of the job it registers.     *)
(* The AsyncIOScheduler is the library's: add_job with replace_existing    *)
(* puts the job under its id in place of the one that is there, start()    *)
(* on a running scheduler raises SchedulerAlreadyRunningError, and the     *)
(* executor counts the runs in progress per job id.                        *)
(***************************************************************************)
MaxEvents == 7

\* Mutant: the job is added with max_instances=2.
MayRunJobTwo(instances) == instances < 2

\* add_job of 159-170 passes no max_instances, which leaves the library's
\* default of one: a firing is submitted only when no run is in progress.
MayRunJob(instances) == instances < 1

JobIdle ==
    /\ j_running = FALSE
    /\ j_registered = FALSE
    /\ j_instances = 0
    /\ j_log = <<>>

JobInit == JobIdle

\* start(): the job is registered (again), the scheduler is started if it
\* is not running.  The runs in progress are left alone.
JobStart ==
    /\ Len(j_log) < MaxEvents
    /\ j_registered' = TRUE
    /\ j_running' = TRUE
    /\ j_log' = Append(j_log, IF j_running THEN "start_again" ELSE "start")
    /\ UNCHANGED j_instances
    /\ UNCHANGED NotJob

\* The cron trigger fires: process_and_store_news is run, unless the limit
\* of runs in progress is reached, and then the firing is skipped.
JobTrigger ==
    /\ Len(j_log) < MaxEvents
    /\ j_running /\ j_registered
    /\ IF MayRunJob(j_instances)
       THEN /\ j_instances' = j_instances + 1
            /\ j_log' = Append(j_log, "run")
       ELSE /\ j_log' = Append(j_log, "skip")
            /\ UNCHANGED j_instances
    /\ UNCHANGED <<j_running, j_registered>>
    /\ UNCHANGED NotJob

\* A run of process_and_store_news ends (151-154: it returns or raises).
JobRunEnd ==
    /\ Len(j_log) < MaxEvents
    /\ j_instances > 0
    /\ j_instances' = j_instances - 1
    /\ j_log' = Append(j_log, "end")
    /\ UNCHANGED <<j_running, j_registered>>
    /\ UNCHANGED NotJob

(***************************************************************************)
(* NewsFetcher.search_news (28-88) as a call.                              *)
(***************************************************************************)
\* Entries of the provider's news_results: with all the fields, with some
\* missing, with none of the six, with a field the fetcher does not keep.
FetchProviderResults ==
    {[title |-> "A", link |-> "https://a", source |-> "SA",
      date |-> "1 day ago", snippet |-> "sa", thumbnail |-> "ta"],
     [title |-> "B", link |-> "https://b", source |-> "SB"],
     [title |-> "C"],
     [link |-> "https://d", snippet |-> "sd"],
     [position |-> "5"],
     [title |-> "", link |-> "https://f", date |-> "", thumbnail |-> "tf"],
     [title |-> "G", link |-> "https://g", position |-> "7"],
     [source |-> "SH", date |-> "2 days ago", thumbnail |-> "th"]}

\* What lines 60-63 give: the request fails, the status is an error one,
\* the body is not JSON, or the JSON object of the provider.
FetchResponses ==
    {[kind |-> "ClientError"], [kind |-> "ClientResponseError"],
     [kind |-> "ContentTypeError"],
     [kind |-> "data", data |-> [error |-> "no results"]]}
    \cup {[kind |-> "data", data |-> [news_results |-> rs]] :
            rs \in SeqsUpTo(FetchProviderResults, MaxResults)}

\* The handlers of 83-88 log the exception and raise it again.
OnSearchError(exception) == Raise(exception)

\* search_news for a request that went as response says.
SearchNews(response) ==
    IF response.kind # "data" THEN OnSearchError(response.kind)
    ELSE Return(FormatResults(DictGet(response.data, "news_results", <<>>)))

FetchIdle ==
    /\ f_response = [kind |-> "ClientError"]
    /\ f_pc = "idle"
    /\ f_ret = NoRet

FetchInit ==
    /\ f_response \in FetchResponses
    /\ f_pc = "call"
    /\ f_ret = NoRet

SearchNewsCall ==
    /\ f_pc = "call"
    /\ f_pc' = "done"
    /\ f_ret' = SearchNews(f_response)
    /\ UNCHANGED f_response
    /\ UNCHANGED NotFetch

(***************************************************************************)
(* ContentExtractor._extract_title (81-96).  selector.css(expr).get()      *)
(* gives None when nothing matches, else the text of the first match.      *)
(***************************************************************************)
TitleSelectors == <<"h1", "title", "og:title", "twitter:title">>

NoMatch == [found |-> FALSE]

Match(text) == [found |-> TRUE, text |-> text]

\* What the page gives for the selector number i.
TitleMatches(i) ==
    {NoMatch, Match(""), Match(" "),
     Match(" " \o TitleSelectors[i] \o "\n")}

\* Line 93: `if title:` is true of a string that is not empty.
IsTruthyTitle(title) == title.found /\ title.text # ""

\* The loop of 91-94 from the selector number i on, and line 96.
RECURSIVE ExtractTitleFrom(_, _)
ExtractTitleFrom(sources, i) ==
    IF i > Len(sources) THEN ""
    ELSE IF IsTruthyTitle(sources[i]) THEN Strip(sources[i].text)
    ELSE ExtractTitleFrom(sources, i + 1)

ExtractTitle(sources) == ExtractTitleFrom(sources, 1)

TitleIdle ==
    /\ x_sources = <<>>
    /\ x_pc = "idle"
    /\ x_ret = ""

TitleInit ==
    /\ x_sources \in {src \in [1..Len(TitleSelectors) ->
                                  UNION {TitleMatches(i) :
                                           i \in 1..Len(TitleSelectors)}] :
                        \A i \in 1..Len(TitleSelectors) :
                            src[i] \in TitleMatches(i)}
    /\ x_pc = "call"
    /\ x_ret = ""

ExtractTitleCall ==
    /\ x_pc = "call"
    /\ x_pc' = "done"
    /\ x_ret' = ExtractTitle(x_sources)
    /\ UNCHANGED x_sources
    /\ UNCHANGED NotTitle

(***************************************************************************)
(* ContentExtractor._clean_content (125-139), on the text itself.          *)
(***************************************************************************)
MaxPieces == 3

UpperLetters == "ABCDEFGHIJKLMNOPQRSTUVWXYZ"
LowerLetters == "abcdefghijklmnopqrstuvwxyz"

\* str.lower() of one character, as re.IGNORECASE compares.
LowerChar(c) ==
    LET k == Find(UpperLetters, c, 1)
    IN IF k = 0 THEN c ELSE SubSeq(LowerLetters, k, k)

\* Does word (in lower case) stand in s at i, whatever the case of s.
StartsWithIgnoreCase(s, i, word) ==
    /\ i + Len(word) - 1 <= Len(s)
    /\ \A k \in 1..Len(word) :
           LowerChar(SubSeq(s, i + k - 1, i + k - 1)) = SubSeq(word, k, k)

\* Does word stand in s at i.
StartsWith(s, i, word) ==
    /\ i + Len(word) - 1 <= Len(s)
    /\ SubSeq(s, i, i + Len(word) - 1) = word

\* Line 131: re.sub(r'\s+', ' ', content), from i on.
RECURSIVE CollapseWhitespace(_, _)
CollapseWhitespace(s, i) ==
    IF i > Len(s) THEN ""
    ELSE IF IsSpace(SubSeq(s, i, i))
    THEN (IF i > 1 /\ IsSpace(SubSeq(s, i - 1, i - 1)) THEN "" ELSE " ")
         \o CollapseWhitespace(s, i + 1)
    ELSE SubSeq(s, i, i) \o CollapseWhitespace(s, i + 1)

\* Line 134: re.sub(r'Advertisement|Sponsored|Related.*', '', content,
\* flags=re.IGNORECASE), from i on: one pass from left to right over the
\* text; 'Related.*' runs to the end, the text having no line break left.
RECURSIVE RemoveUnwanted(_, _)
RemoveUnwanted(s, i) ==
    IF i > Len(s) THEN ""
    ELSE IF StartsWithIgnoreCase(s, i, "advertisement")
    THEN RemoveUnwanted(s, i + Len("advertisement"))
    ELSE IF StartsWithIgnoreCase(s, i, "sponsored")
    THEN RemoveUnwanted(s, i + Len("sponsored"))
    ELSE IF StartsWithIgnoreCase(s, i, "related") THEN ""
    ELSE SubSeq(s, i, i) \o RemoveUnwanted(s, i + 1)

\* The length of the match of r'http[s]?://\S+' at i, or 0.
UrlMatch(s, i) ==
    LET head == IF StartsWith(s, i, "https://") THEN Len("https://")
                ELSE IF StartsWith(s, i, "http://") THEN Len("http://")
                ELSE 0
        space == FindAny(s, {" ", "\n", "\t"}, i + head)
        stop == IF space = 0 THEN Len(s) + 1 ELSE space
    IN IF head = 0 \/ stop = i + head THEN 0 ELSE stop - i

\* Line 137: re.sub(r'http[s]?://\S+', '', content), from i on.
RECURSIVE RemoveUrls(_, _)
RemoveUrls(s, i) ==
    IF i > Len(s) THEN ""
    ELSE IF UrlMatch(s, i) > 0 THEN RemoveUrls(s, i + UrlMatch(s, i))
    ELSE SubSeq(s, i, i) \o RemoveUrls(s, i + 1)

CleanContent(content) ==
    IF content = "" THEN ""
    ELSE Strip(RemoveUrls(RemoveUnwanted(CollapseWhitespace(content, 1), 1),
                          1))

\* The texts given to _clean_content: up to MaxPieces of these, one after
\* the other.
CleanPieces ==
    {"a", "a ", " b", " ", "\n", "Advertisement", "SPONSORED", "Related",
     "http://x", "https://y.z/"}

RECURSIVE ConcatText(_)
ConcatText(pieces) ==
    IF pieces = <<>> THEN "" ELSE Head(pieces) \o ConcatText(Tail(pieces))

CleanInputs == {ConcatText(ps) : ps \in SeqsUpTo(CleanPieces, MaxPieces)}

CleanIdle ==
    /\ c_content = ""
    /\ c_pc = "idle"
    /\ c_ret = ""

CleanInit ==
    /\ c_content \in CleanInputs
    /\ c_pc = "call"
    /\ c_ret = ""

CleanContentCall ==
    /\ c_pc = "call"
    /\ c_pc' = "done"
    /\ c_ret' = CleanContent(c_content)
    /\ UNCHANGED c_content
    /\ UNCHANGED NotClean

(***************************************************************************)
(* The routes /subscribe (40-144) and /unsubscribe (146-210) on the        *)
(* collection 'users'.  A handler reads the collection and writes to it    *)
(* later, with no transaction; the application is served as a function     *)
(* (main.py 49-52), whose instances share the collection, so the read of   *)
(* one request and the write of another come in any order.                 *)
(***************************************************************************)
MaxUsers == 2        \* the setting MAX_USERS of the model
MaxRequests == 3     \* requests received in one behaviour

Handlers == {1, 2}

\* str.lower().
RECURSIVE LowerText(_)
LowerText(s) ==
    IF s = "" THEN ""
    ELSE LowerChar(SubSeq(s, 1, 1)) \o LowerText(SubSeq(s, 2, Len(s)))

\* Lines 47 and 153: the email of the request, trimmed and in lower case.
NormalizeEmail(data) == LowerText(Strip(DictGet(data, "email", "")))

EndsWith(s, suffix) ==
    /\ Len(s) >= Len(suffix)
    /\ SubSeq(s, Len(s) - Len(suffix) + 1, Len(s)) = suffix

\* Line 61.
AllowedDomains == {"gmail.com", "yahoo.com", "outlook.com"}

\* The JSON bodies of the requests; None is a request without one.
SubscribeBodies ==
    {None, [email |-> "a@gmail.com", name |-> " ", topic |-> "AI"]}
    \cup [email : {"a@gmail.com", " A@Gmail.com ", "b@yahoo.com",
                   "c@outlook.com", "x@aol.com", ""},
          name : {"N"}, topic : {"AI"}]

UnsubscribeBodies ==
    {None} \cup [email : {"a@gmail.com", " A@Gmail.com ", "b@yahoo.com", ""}]

\* A call of the database client returns or raises.
DbOutcomes == {"ok", "error"}

IdleHandler == [pc |-> "idle"]

Respond(route, email, status) ==
    responses \cup {[route |-> route, email |-> email, status |-> status]}

\* Lines 44-63: the status the request is refused with, or 0.
SubscribeRefusal(data) ==
    IF data = None THEN 400
    ELSE IF \/ NormalizeEmail(data) = ""
            \/ Strip(DictGet(data, "name", "")) = ""
            \/ Strip(DictGet(data, "topic", "")) = ""
    THEN 400
    ELSE IF ~\E domain \in AllowedDomains :
                EndsWith(NormalizeEmail(data), domain)
    THEN 400
    ELSE 0

\* Lines 75-103 on the documents read at 69: the status the request is
\* refused with, or 0.
SubscribeCheck(all_users, email) ==
    IF \E user \in all_users : user.email = email THEN 409
    ELSE IF Cardinality(all_users) >= MaxUsers THEN 403
    ELSE 0

UsersIdle ==
    /\ users = {}
    /\ handlers = [h \in Handlers |-> IdleHandler]
    /\ n_requests = 0
    /\ responses = {}

UsersInit == UsersIdle

\* /subscribe up to the read of the collection (43-69).
SubscribeRead(h) ==
    /\ handlers[h] = IdleHandler
    /\ n_requests < MaxRequests
    /\ n_requests' = n_requests + 1
    /\ \E data \in SubscribeBodies, db \in DbOutcomes :
         IF SubscribeRefusal(data) # 0
         THEN /\ responses' = Respond("subscribe", "", SubscribeRefusal(data))
              /\ UNCHANGED handlers
         ELSE IF db = "error"
         THEN /\ responses' = Respond("subscribe", NormalizeEmail(data), 500)
              /\ UNCHANGED handlers
         ELSE /\ handlers' = [handlers EXCEPT ![h] =
                                [pc |-> "subscribe",
                                 id |-> n_requests + 1,
                                 email |-> NormalizeEmail(data),
                                 topic |-> Strip(data.topic),
                                 all_users |-> users]]
              /\ UNCHANGED responses
    /\ UNCHANGED users
    /\ UNCHANGED NotUsers

\* /subscribe from the duplicate test to the response (75-133).
SubscribeWrite(h) ==
    /\ handlers[h].pc = "subscribe"
    /\ LET req == handlers[h]
           refusal == SubscribeCheck(req.all_users, req.email)
       IN IF refusal # 0
          THEN /\ responses' = Respond("subscribe", req.email, refusal)
               /\ UNCHANGED users
          ELSE \E db \in DbOutcomes :
                 IF db = "error"
                 THEN /\ responses' = Respond("subscribe", req.email, 500)
                      /\ UNCHANGED users
                 ELSE /\ users' = users \cup {[id |-> req.id,
                                               email |-> req.email,
                                               topic |-> req.topic,
                                               status |-> "active"]}
                      /\ responses' = Respond("subscribe", req.email, 201)
    /\ handlers' = [handlers EXCEPT ![h] = IdleHandler]
    /\ UNCHANGED n_requests
    /\ UNCHANGED NotUsers

\* /unsubscribe up to the query (149-167).
UnsubscribeRead(h) ==
    /\ handlers[h] = IdleHandler
    /\ n_requests < MaxRequests
    /\ n_requests' = n_requests + 1
    /\ \E data \in UnsubscribeBodies, db \in DbOutcomes :
         IF data = None \/ NormalizeEmail(data) = ""
         THEN /\ responses' = Respond("unsubscribe", "", 400)
              /\ UNCHANGED handlers
         ELSE IF db = "error"
         THEN /\ responses' = Respond("unsubscribe", NormalizeEmail(data),
                                      500)
              /\ UNCHANGED handlers
         ELSE /\ handlers' = [handlers EXCEPT ![h] =
                                [pc |-> "unsubscribe",
                                 email |-> NormalizeEmail(data),
                                 query_result |->
                                   {user \in users :
                                      user.email = NormalizeEmail(data)}]]
              /\ UNCHANGED responses
    /\ UNCHANGED users
    /\ UNCHANGED NotUsers

\* /unsubscribe from the test of the query result to the response
\* (170-188): the documents found are deleted.
UnsubscribeDelete(h) ==
    /\ handlers[h].pc = "unsubscribe"
    /\ LET req == handlers[h]
       IN IF req.query_result = {}
          THEN /\ responses' = Respond("unsubscribe", req.email, 404)
               /\ UNCHANGED users
          ELSE /\ users' = users \ req.query_result
               /\ responses' = Respond("unsubscribe", req.email, 200)
    /\ handlers' = [handlers EXCEPT ![h] = IdleHandler]
    /\ UNCHANGED n_requests
    /\ UNCHANGED NotUsers

(***************************************************************************)
(* The specifications.  Each operation is checked on its own: the state of *)
(* the others stays idle.                                                  *)
(***************************************************************************)
CoreIdle == ChunkIdle /\ BatchIdle /\ TopicIdle /\ TopicsIdle
HelpersIdle == FetchIdle /\ TitleIdle /\ CleanIdle /\ UsersIdle
OthersIdle ==
    ExtractIdle /\ SummarizeIdle /\ SchedIdle /\ JobIdle /\ HelpersIdle
PipelineIdle ==
    CoreIdle /\ ExtractIdle /\ SummarizeIdle /\ SchedIdle /\ JobIdle

InitChunk == ChunkInit /\ BatchIdle /\ TopicIdle /\ TopicsIdle /\ OthersIdle
NextChunk == CallChunkArticles
SpecChunk == InitChunk /\ [][NextChunk]_vars

InitBatch == ChunkIdle /\ BatchInit /\ TopicIdle /\ TopicsIdle /\ OthersIdle
NextBatch == BatchStart \/ BatchChunk \/ BatchAfterLoop \/ BatchCombine
SpecBatch == InitBatch /\ [][NextBatch]_vars

InitTopic == ChunkIdle /\ BatchIdle /\ TopicInit /\ TopicsIdle /\ OthersIdle
NextTopic == TopicFetch \/ TopicExtractStart \/ TopicExtract \/ TopicGather
SpecTopic == InitTopic /\ [][NextTopic]_vars

InitTopics == ChunkIdle /\ BatchIdle /\ TopicIdle /\ TopicsInit /\ OthersIdle
NextTopics == ProcessTopicsIteration \/ ProcessTopicsReturn
SpecTopics == InitTopics /\ [][NextTopics]_vars

InitExtract ==
    CoreIdle /\ ExtractInit /\ SummarizeIdle /\ SchedIdle /\ JobIdle
    /\ HelpersIdle
NextExtract == ExtractValidate \/ ExtractFetch \/ ExtractParse
SpecExtract == InitExtract /\ [][NextExtract]_vars

InitSummarize ==
    CoreIdle /\ ExtractIdle /\ SummarizeInit /\ SchedIdle /\ JobIdle
    /\ HelpersIdle
NextSummarize == SummarizeCall
SpecSummarize == InitSummarize /\ [][NextSummarize]_vars

InitSched ==
    CoreIdle /\ ExtractIdle /\ SummarizeIdle /\ SchedInit /\ JobIdle
    /\ HelpersIdle
NextSched ==
    SchedStart \/ SchedTopic \/ SchedTopicsDone \/ SchedSend \/ SchedFinish
SpecSched == InitSched /\ [][NextSched]_vars

InitJob ==
    CoreIdle /\ ExtractIdle /\ SummarizeIdle /\ SchedIdle /\ JobInit
    /\ HelpersIdle
NextJob == JobStart \/ JobTrigger \/ JobRunEnd
SpecJob == InitJob /\ [][NextJob]_vars

InitFetch ==
    PipelineIdle /\ FetchInit /\ TitleIdle /\ CleanIdle /\ UsersIdle
NextFetch == SearchNewsCall
SpecFetch == InitFetch /\ [][NextFetch]_vars

InitTitle ==
    PipelineIdle /\ FetchIdle /\ TitleInit /\ CleanIdle /\ UsersIdle
NextTitle == ExtractTitleCall
SpecTitle == InitTitle /\ [][NextTitle]_vars

InitClean ==
    PipelineIdle /\ FetchIdle /\ TitleIdle /\ CleanInit /\ UsersIdle
NextClean == CleanContentCall
SpecClean == InitClean /\ [][NextClean]_vars

InitUsers ==
    PipelineIdle /\ FetchIdle /\ TitleIdle /\ CleanIdle /\ UsersInit
NextUsers ==
    \E h \in Handlers :
        \/ SubscribeRead(h)
        \/ SubscribeWrite(h)
        \/ UnsubscribeRead(h)
        \/ UnsubscribeDelete(h)
SpecUsers == InitUsers /\ [][NextUsers]_vars

(***************************************************************************)
(* Claims about Summarizer._chunk_articles (SpecChunk).                    *)
(***************************************************************************)
Returned == {chunk_returns[k] : k \in 1..Len(chunk_returns)}

\* C1: every chunk returned by _chunk_articles has a summed token count
\* <= max_tokens or holds exactly one article; an article larger than
\* max_tokens stands alone in its chunk.
C1_ChunkBudget ==
    \A ret \in Returned : \A i \in 1..Len(ret) :
        /\ SumTok(ret[i]) <= max_tokens \/ Len(ret[i]) = 1
        /\ \A j \in 1..Len(ret[i]) :
               ret[i][j].tok > max_tokens => ret[i] = <<ret[i][j]>>

\* A call has returned an oversized article alone next to a chunk of two
\* articles within the budget.
C1_Witness ==
    \E ret \in Returned : \E i, k \in 1..Len(ret) :
        /\ Len(ret[i]) = 1 /\ SumTok(ret[i]) > max_tokens
        /\ Len(ret[k]) = 2 /\ SumTok(ret[k]) <= max_tokens

\* C2: the chunks returned by _chunk_articles, concatenated in order, are
\* the input sequence; no chunk is empty; no input gives no chunks.
C2_ChunkCoverage ==
    \A ret \in Returned :
        /\ Concat(ret) = articles
        /\ \A i \in 1..Len(ret) : ret[i] # <<>>
        /\ articles = <<>> => ret = <<>>

\* A call has split three articles, among them two of equal token count
\* and different links, into more than one chunk.
C2_Witness ==
    \E ret \in Returned :
        /\ Len(articles) = 3 /\ Len(ret) >= 2
        /\ \E i, j \in 1..3 : /\ articles[i].tok = articles[j].tok
                              /\ articles[i].link # articles[j].link

FiveArticles == [i \in 1..5 |-> [link |-> "https://a", tok |-> 2000, n |-> i]]

\* C3: _chunk_articles fills greedily: a chunk is closed exactly when it is
\* non-empty and the next article would push the total over max_tokens.  So
\* the total of a chunk plus the first article of the next one exceeds
\* max_tokens, every article after the first of a chunk fitted when it was
\* added, and token counts [2000]*5 with max_tokens 4500 give
\* [[1,2],[3,4],[5]].
C3_GreedyFill ==
    /\ \A ret \in Returned :
         /\ \A i \in 1..(Len(ret) - 1) :
                SumTok(ret[i]) + ret[i + 1][1].tok > max_tokens
         /\ \A i \in 1..Len(ret) : \A j \in 2..Len(ret[i]) :
                SumTok(SubSeq(ret[i], 1, j)) <= max_tokens
    /\ ChunkArticles(FiveArticles, 4500) =
         << <<FiveArticles[1], FiveArticles[2]>>,
            <<FiveArticles[3], FiveArticles[4]>>,
            <<FiveArticles[5]>> >>

\* A call has closed a chunk of two articles that filled the budget exactly
\* and opened another.
C3_Witness ==
    \E ret \in Returned :
        /\ Len(ret) = 2
        /\ Len(ret[1]) = 2
        /\ SumTok(ret[1]) = max_tokens

(***************************************************************************)
(* Claims about Summarizer.batch_summarize (SpecBatch).                    *)
(***************************************************************************)
GenFailed(o) == o.kind = "raise" \/ o.text = ""

ChunkCalls == SelectSeq(gen_log, LAMBDA e : e.call = "chunk")
CombineCalls == SelectSeq(gen_log, LAMBDA e : e.call = "combine")
SucceededChunkCalls == SelectSeq(ChunkCalls, LAMBDA e : ~GenFailed(e.outcome))

\* C4: if the generation call fails (raises or returns empty text) for
\* every chunk, batch_summarize returns the digest 'Failed to generate
\* summaries' with the input articles; it does not raise.
C4_AllChunksFail ==
    (/\ b_pc = "done"
     /\ ChunkCalls # <<>>
     /\ SucceededChunkCalls = <<>>)
    => b_ret = Return([summary |-> "Failed to generate summaries",
                       articles |-> contents])

\* C5: a failed generation call for one chunk is skipped: generation is
\* attempted for every chunk, and the summaries of the chunks that
\* succeeded are kept in order and a digest is returned.
C5_ChunkFailureSkipped ==
    (b_pc = "done" /\ contents # <<>>) =>
        /\ \A k \in 1..Len(chunks) :
               \E n \in 1..Len(ChunkCalls) : ChunkCalls[n].index = k
        /\ chunk_summaries =
               [n \in 1..Len(SucceededChunkCalls) |->
                    Strip(SucceededChunkCalls[n].outcome.text)]
        /\ b_ret.kind = "return"

\* C6: the combine call is issued exactly when at least two chunk summaries
\* succeeded, and then once; with exactly one the returned summary is that
\* chunk's summary and there were as many generation calls as chunks.
C6_CombineIffTwo ==
    (b_pc = "done" /\ contents # <<>>) =>
        /\ Len(CombineCalls) = (IF Len(SucceededChunkCalls) >= 2 THEN 1 ELSE 0)
        /\ Len(SucceededChunkCalls) = 1 =>
               /\ b_ret.kind = "return"
               /\ b_ret.value.summary =
                      Strip(SucceededChunkCalls[1].outcome.text)
               /\ Len(gen_log) = Len(chunks)

\* C7: when at least two chunk summaries succeeded and the combine call
\* raises or returns empty text, batch_summarize returns the digest 'Failed
\* to combine summaries' with the input articles; it does not raise.
C7_CombineFails ==
    (/\ b_pc = "done"
     /\ Len(SucceededChunkCalls) >= 2
     /\ CombineCalls # <<>>
     /\ GenFailed(CombineCalls[1].outcome))
    => /\ b_ret.kind = "return"
       /\ b_ret.value.summary = "Failed to combine summaries"
       /\ b_ret.value.articles = contents

(***************************************************************************)
(* Claims about Processor.process_topics (SpecTopics) and                  *)
(* Processor.process_topic (SpecTopic).                                    *)
(***************************************************************************)
\* C8: process_topics returns a mapping with one key per input topic; a
\* topic whose retrieval raises maps to the empty list, nothing is raised,
\* and every other topic gets the result it gets when that retrieval does
\* not fail.
C8_TopicFailureContained ==
    p_pc = "done" =>
        /\ p_ret.kind = "return"
        /\ DOMAIN p_ret.value = Range(topics)
        /\ \A t \in Range(topics) :
               p_search[t].kind = "raise" =>
                   /\ p_ret.value[t] = <<>>
                   /\ \A u \in Range(topics) \ {t} :
                        \A o \in SearchOutcomes \ {[kind |-> "raise"]} :
                          p_ret.value[u] =
                            ProcessTopicsRun(<<>>, topics,
                                             [p_search EXCEPT ![t] = o],
                                             p_extract, p_gen)[u]

\* process_topics has returned for two topics, the first with a retrieval
\* that raised and the second with candidates.
C8_Witness ==
    /\ p_pc = "done"
    /\ Len(topics) = 2
    /\ p_search[topics[1]].kind = "raise"
    /\ p_search[topics[2]].kind = "results"
    /\ p_search[topics[2]].news_results # <<>>
    /\ p_ret.kind = "return"

\* C9: for a topic with at least one candidate and at least one successful
\* extraction, process_topic returns a sequence holding every article whose
\* extraction succeeded, each stamped with processed_at and topic.
C9_ProcessTopicReturns ==
    (/\ t_pc = "done"
     /\ news_articles # <<>>
     /\ \E i \in 1..Len(content_tasks) : content_tasks[i] # None)
    => /\ t_ret.kind = "return"
       /\ \A i \in 1..Len(content_tasks) :
              content_tasks[i] # None =>
                  \E j \in 1..Len(t_ret.value) :
                      /\ t_ret.value[j].link = news_articles[i].link
                      /\ "processed_at" \in DOMAIN t_ret.value[j]
                      /\ DictGet(t_ret.value[j], "topic", "") = TopicArg

\* C10: in process_topics every candidate with a non-empty link whose
\* extraction returns content and whose summarization succeeds is in its
\* topic's result list.
C10_CandidatesProcessed ==
    p_pc = "done" =>
        \A t \in Range(topics) :
            p_search[t].kind = "results" =>
                \A i \in 1..Len(p_search[t].news_results) :
                    LET c == FormatArticle(p_search[t].news_results[i])
                        content == ExtractContent(c.link, p_extract)
                    IN (/\ c.link # ""
                        /\ content # None
                        /\ Summarize(content, p_gen) # None)
                       => \E j \in 1..Len(p_ret.value[t]) :
                              p_ret.value[t][j].link = c.link

(***************************************************************************)
(* Claims about the join, the extraction fan-out and the scheduled job's   *)
(* pipeline (SpecTopic, SpecSched).                                        *)
(***************************************************************************)
\* The candidates whose extraction returned content, in retrieval order.
RECURSIVE WithContent(_, _)
WithContent(candidates, fetch) ==
    IF candidates = <<>> THEN <<>>
    ELSE (IF ExtractContent(Head(candidates).link, fetch) # None
          THEN <<Head(candidates)>> ELSE <<>>)
         \o WithContent(Tail(candidates), fetch)

JoinedExactly(joined, candidates, fetch) ==
    LET kept == WithContent(candidates, fetch)
    IN /\ Len(joined) = Len(kept)
       /\ \A k \in 1..Len(kept) :
            /\ k <= Len(joined)
            /\ joined[k].link = kept[k].link
            /\ joined[k].source = kept[k].source
            /\ joined[k].date = kept[k].date
            /\ joined[k].snippet = kept[k].snippet
            /\ joined[k].content =
                 ExtractContent(kept[k].link, fetch).content

\* The same for every topic the scheduled job has been through.
SchedJoinExact ==
    \A n \in 1..Len(s_trace) :
        JoinedExactly(s_trace[n].processed_articles, s_trace[n].articles,
                      s_fetch)

\* A topic of the scheduled job with candidates A, B, C where B's
\* extraction failed: the joined list is A, C.
SchedJoinSkipsMiddle ==
    \E n \in 1..Len(s_trace) :
        /\ Len(s_trace[n].articles) = 3
        /\ ExtractContent(s_trace[n].articles[2].link, s_fetch) = None
        /\ Len(s_trace[n].processed_articles) = 2
        /\ s_trace[n].processed_articles[1].link = s_trace[n].articles[1].link
        /\ s_trace[n].processed_articles[2].link = s_trace[n].articles[3].link

\* C11: in the join step of process_topic and of process_and_store_news the
\* joined list is exactly the subsequence of the retrieved candidates whose
\* extraction returned content, in retrieval order, each with its own link,
\* source, date, snippet and content.
C11_JoinKeepsOthers ==
    /\ SchedJoinExact
    /\ (t_pc = "done" /\ news_articles # <<>>)
       => JoinedExactly(articles_with_content, news_articles, t_extract)

\* C12: process_topic starts the extraction of a later candidate before
\* the extraction of an earlier one has completed, and awaits them jointly
\* with the failures kept apart: with two or more candidates, two calls of
\* extract_content have been in progress at once and the joint wait has not
\* ended the call.
C12_ExtractionFannedOut ==
    (t_pc = "done" /\ Len(news_articles) >= 2)
    => /\ t_max_inflight >= 2
       /\ t_ret # Raise("TypeError")

Sentinel == "Failed to generate summaries"

\* C13: when batch_summarize returns the sentinel digest for a topic, the
\* scheduled job stores no summary for that topic and sends the sentinel
\* text to nobody.
C13_SentinelDetected ==
    /\ \A n \in 1..Len(s_trace) :
         (/\ s_trace[n].summarized
          /\ s_trace[n].summary_result.kind = "return"
          /\ s_trace[n].summary_result.value.summary = Sentinel)
         => /\ ~s_trace[n].stored
            /\ \A i \in 1..Len(topic_summaries) :
                 topic_summaries[i].topic # s_trace[n].topic
    /\ \A k \in 1..Len(send_log) : send_log[k].summary # Sentinel

\* The (topic, subscriber) pairs of a run: the topic has a digest and the
\* user is subscribed to it.
DeliveryPairs ==
    {<<topic_summaries[i].topic, s_users[u].email>> :
        <<i, u>> \in {<<i, u>> \in (1..Len(topic_summaries)) \X
                                   (1..Len(s_users)) :
                        s_users[u].topic = topic_summaries[i].topic}}

Deliveries(topic, email) ==
    {k \in 1..Len(send_log) :
        send_log[k].topic = topic /\ send_log[k].email = email}

\* C14: a delivery that failed (send_summary returned False, after another
\* status or an exception of the request) does not stop the distribution:
\* when the job is over, send_summary has been called for every subscriber
\* of every topic with a digest, and while it is sending, a failed call is
\* followed by the call for the next pair.
C14_DeliveryContinues ==
    /\ (s_pc = "done" /\ topic_summaries # <<>>)
       => \A pair \in DeliveryPairs : Deliveries(pair[1], pair[2]) # {}
    /\ \A k \in 1..Len(send_log) :
         ~send_log[k].email_sent =>
             \/ k < Len(send_log)
             \/ s_pc = "send" /\ s_n = k
             \/ s_pc = "done" /\ s_ret = Return(None)
                /\ k = Len(SendPlan(topic_summaries, s_users))

\* The job is over; the send to the first subscriber of the first topic
\* failed by an exception, the next one got another status, and sends to
\* a later subscriber of the same topic and of a later topic followed.
C14_Witness ==
    /\ s_pc = "done"
    /\ Len(send_log) >= 3
    /\ send_log[1].post.kind = "raise" /\ ~send_log[1].email_sent
    /\ send_log[2].topic = send_log[1].topic
    /\ send_log[2].email # send_log[1].email
    /\ ~send_log[2].email_sent
    /\ send_log[3].topic # send_log[1].topic
    /\ send_log[3].email_sent

\* C15: send_summary is called exactly once for each pair of a topic with a
\* digest and a subscriber of it, and each call comes after the topic's
\* article records were written to the store.
C15_SendOncePersisted ==
    /\ s_pc = "done" =>
         \A pair \in DeliveryPairs :
             Cardinality(Deliveries(pair[1], pair[2])) = 1
    /\ \A k \in 1..Len(send_log) :
         \E w \in 1..Len(db_writes) : db_writes[w].topic = send_log[k].topic

\* C19: every article handed to batch_summarize by the scheduled job or by
\* process_topic has a non-empty body: a page whose cleaned body is empty
\* gives None in extract_content and the join drops it.
C19_NonEmptyBodies ==
    /\ \A n \in 1..Len(s_trace) :
         /\ s_trace[n].summarized <=> s_trace[n].processed_articles # <<>>
         /\ \A k \in 1..Len(s_trace[n].processed_articles) :
              /\ "content" \in DOMAIN s_trace[n].processed_articles[k]
              /\ s_trace[n].processed_articles[k].content # ""
         /\ \A k \in 1..Len(s_trace[n].articles) :
              LET a == s_trace[n].articles[k]
              IN (a.link \in SchedLinks /\ s_fetch[a.link].kind = "page"
                  /\ s_fetch[a.link].cleaned_content = "")
                 => \A j \in 1..Len(s_trace[n].processed_articles) :
                        s_trace[n].processed_articles[j].link # a.link
    /\ \A k \in 1..Len(articles_with_content) :
         /\ "content" \in DOMAIN articles_with_content[k]
         /\ articles_with_content[k].content # ""

\* A topic of the job where a candidate's page had an empty cleaned body and
\* another candidate went on to batch_summarize.
C19_Witness ==
    \E n \in 1..Len(s_trace) :
        /\ s_trace[n].summarized
        /\ \E k \in 1..Len(s_trace[n].articles) :
             LET a == s_trace[n].articles[k]
             IN /\ a.link \in SchedLinks
                /\ s_fetch[a.link].kind = "page"
                /\ s_fetch[a.link].cleaned_content = ""

(***************************************************************************)
(* Claims about the runs of the scheduled job (SpecJob).                   *)
(***************************************************************************)
\* The runs in progress after the first n events of the log.
RECURSIVE InProgress(_, _)
InProgress(log, n) ==
    IF n = 0 THEN 0
    ELSE InProgress(log, n - 1)
         + (IF log[n] = "run" THEN 1 ELSE 0)
         - (IF log[n] = "end" THEN 1 ELSE 0)

FetchFailed(response, bad_statuses) ==
    \/ response.kind \in {"ClientError", "TimeoutError"}
    \/ response.kind = "response"
       /\ \/ response.status \in bad_statuses
          \/ response.body.kind = "undecodable"

Non2xx == {status \in Statuses : status < 200 \/ status > 299}

ErrorStatuses == {status \in Statuses : status >= 400}

ExtractContract(bad_statuses) ==
    e_pc = "done" =>
        /\ e_ret.kind = "return"
        /\ (e_response # None /\ FetchFailed(e_response, bad_statuses))
           => e_ret.value = None
        /\ e_ret.value # None
           => /\ e_response # None
              /\ ~FetchFailed(e_response, bad_statuses)
              /\ e_ret.value = ExtractContent(e_url, [u \in {e_url} |->
                                                        PageOf(e_response)])

\* C17, as claimed: extract_content never raises; for every URL and every
\* fetch outcome (non-2xx status, transport error, timeout, unparsable
\* body) it returns None, and it returns a record only when the fetch
\* succeeded.
C17_NoneOnNon2xx == ExtractContract(Non2xx)

\* C17, amended: extract_content never raises; for every URL and every
\* fetch outcome (a status of 400 or above, transport error, timeout,
\* unparsable body) it returns None, and it returns a record only when a
\* response with a status below 400 arrived and its body was read.
C17_NoneOnFailure == ExtractContract(ErrorStatuses)

\* A call whose request timed out has returned None.
C17_Witness ==
    /\ e_pc = "done"
    /\ e_response = [kind |-> "TimeoutError"]
    /\ e_ret = Return(None)

\* URLs with no scheme or no host.
MalformedUrls ==
    {"", "a.com/x", "//host/x", "https://", "https:///x", "https://?q",
     "mailto:u"}

\* C18: for a URL with a missing scheme or a missing host extract_content
\* issues no request and returns None.
C18_MalformedUrlNoRequest ==
    e_url \in MalformedUrls =>
        /\ e_requests = 0
        /\ e_response = None
        /\ e_pc \in {"validate", "done"}
        /\ e_pc = "done" => e_ret = Return(None)

\* The call for a URL with a scheme and no host has returned.
C18_Witness ==
    /\ e_url = "https://"
    /\ e_pc = "done"
    /\ e_ret = Return(None)
    /\ e_requests = 0

(***************************************************************************)
(* Claims about Summarizer.summarize (SpecSummarize).                      *)
(***************************************************************************)
\* The generated texts of the model without the white space around them.
Trimmed(text) ==
    CASE text = " " -> ""
      [] text = " s1\n" -> "s1"
      [] text = "s2" -> "s2"
      [] text = "s3 " -> "s3"
      [] text = "\ts4" -> "s4"
      [] text = "a b" -> "a b"

SummarizeFails ==
    \/ z_content = None
    \/ "content" \notin DOMAIN z_content
    \/ z_content.content = ""
    \/ z_gen.kind = "raise"
    \/ z_gen.text = ""

\* C20: summarize never raises; when the content is missing or the
\* generation call raises or gives an empty text it returns None; else it
\* returns the input record with 'summary' set to the trimmed text.
C20_SummarizeFailsSoftly ==
    z_pc = "done" =>
        /\ z_ret.kind = "return"
        /\ SummarizeFails => z_ret.value = None
        /\ ~SummarizeFails =>
             /\ DOMAIN z_ret.value = DOMAIN z_content \cup {"summary"}
             /\ \A k \in DOMAIN z_content \ {"summary"} :
                    z_ret.value[k] = z_content[k]
             /\ z_ret.value.summary = Trimmed(z_gen.text)

\* A call with content whose generation call raised has returned None.
C20_Witness ==
    /\ z_pc = "done"
    /\ z_gen.kind = "raise"
    /\ z_content # None
    /\ DictGet(z_content, "content", "") # ""
    /\ z_ret = Return(None)

(***************************************************************************)
(* Claims about NewsFetcher.search_news (SpecFetch).                       *)
(***************************************************************************)
ArticleFields == {"title", "link", "source", "date", "snippet", "thumbnail"}

\* The news_results of the provider's answer.
ProviderEntries ==
    IF "news_results" \in DOMAIN f_response.data
    THEN f_response.data.news_results ELSE <<>>

\* C21: search_news returns one record per provider result, in provider
\* order, each with the six fields, a field missing in the provider result
\* being the empty string; an answer with no results gives the empty
\* sequence and no error.
C21_OneRecordPerResult ==
    (f_pc = "done" /\ f_response.kind = "data") =>
        /\ f_ret.kind = "return"
        /\ Len(f_ret.value) = Len(ProviderEntries)
        /\ \A i \in 1..Len(ProviderEntries) :
             /\ i <= Len(f_ret.value)
             /\ DOMAIN f_ret.value[i] = ArticleFields
             /\ \A field \in ArticleFields :
                  f_ret.value[i][field] =
                    IF field \in DOMAIN ProviderEntries[i]
                    THEN ProviderEntries[i][field] ELSE ""

\* search_news has returned two records for an answer whose first entry has
\* the title only and whose second has all the fields.
C21_Witness ==
    /\ f_pc = "done"
    /\ f_response.kind = "data"
    /\ Len(ProviderEntries) = 2
    /\ DOMAIN ProviderEntries[1] = {"title"}
    /\ DOMAIN ProviderEntries[2] = ArticleFields
    /\ f_ret.kind = "return"
    /\ f_ret.value[1].link = ""
    /\ f_ret.value[2].link = "https://a"

(***************************************************************************)
(* Claims about the digest of Summarizer.batch_summarize (SpecBatch).      *)
(***************************************************************************)
DigestFields == {"summary", "articles", "chunks_processed"}

\* C22, as claimed: every digest batch_summarize returns has the summary,
\* the articles equal to the input in input order, and the chunk count
\* equal to the number of chunks of the input.
C22_DigestComplete ==
    (b_pc = "done" /\ b_ret.kind = "return") =>
        /\ DigestFields \subseteq DOMAIN b_ret.value
        /\ b_ret.value.articles = contents
        /\ b_ret.value.chunks_processed = Len(chunks)

\* C22, amended: every digest batch_summarize returns has the summary and
\* the articles equal to the input in input order; it has the chunk count,
\* equal to the number of chunks of the input, when a chunk summary was
\* generated, and no chunk count for the empty input and when no chunk
\* summary was generated.
C22_DigestFields ==
    (b_pc = "done" /\ b_ret.kind = "return") =>
        /\ {"summary", "articles"} \subseteq DOMAIN b_ret.value
        /\ b_ret.value.articles = contents
        /\ IF chunk_summaries # <<>>
           THEN /\ "chunks_processed" \in DOMAIN b_ret.value
                /\ b_ret.value.chunks_processed = Len(chunks)
                /\ chunks = ChunkArticles(contents, MaxTokens)
           ELSE "chunks_processed" \notin DOMAIN b_ret.value

\* A digest has been returned for an input of three articles in two chunks.
C22_Witness ==
    /\ b_pc = "done"
    /\ b_ret.kind = "return"
    /\ Len(contents) = 3
    /\ Len(chunks) = 2
    /\ b_ret.value.chunks_processed = 2
    /\ b_ret.value.articles = contents

\* The token counts the tokenizer may give the separator '\n\n---\n\n'.
SeparatorTokens == 1..3

\* C27: for every chunk of two or more articles that batch_summarize has
\* sent, the token count of the combined text (the blocks joined by the
\* separator) is <= max_tokens.
C27_JoinedTextWithinBudget ==
    \A k \in 1..Len(gen_log) :
        (gen_log[k].call = "chunk" /\ Len(chunks[gen_log[k].index]) >= 2)
        => \A separator_tokens \in SeparatorTokens :
               JoinedTokens(chunks[gen_log[k].index], separator_tokens)
                 <= MaxTokens

(***************************************************************************)
(* Claims about the topics and the sends of the scheduled job (SpecSched). *)
(***************************************************************************)
\* The pass over the topic number n gave no digest for one of the reasons
\* of the claim.
TopicFailed(n) ==
    \/ s_search[s_trace[n].topic].kind = "raise"
    \/ s_trace[n].articles = <<>>
    \/ s_trace[n].processed_articles = <<>>
    \/ s_trace[n].summarized /\ s_trace[n].summary_result.kind = "raise"

\* C23: a topic whose processing fails (retrieval raises, no candidates,
\* no extraction succeeds, summarization raises) gets no digest and no
\* email, and the other topics are still processed: the loop reaches every
\* topic, a topic whose own processing gave a summary has its digest, and
\* when the job is over its subscribers have their send_summary call.
C23_TopicFailureIsolated ==
    /\ \A n \in 1..Len(s_trace) :
         /\ s_trace[n].topic = s_topics[n].name
         /\ TopicFailed(n) =>
              /\ \A i \in 1..Len(topic_summaries) :
                     topic_summaries[i].topic # s_trace[n].topic
              /\ \A k \in 1..Len(send_log) :
                     send_log[k].topic # s_trace[n].topic
         /\ (/\ s_trace[n].summarized
             /\ s_trace[n].summary_result.kind = "return"
             /\ s_trace[n].summary_result.value.summary # "")
            => \E i \in 1..Len(topic_summaries) :
                   /\ topic_summaries[i].topic = s_trace[n].topic
                   /\ topic_summaries[i].articles =
                        s_trace[n].processed_articles
    /\ (s_pc \in {"send", "done"} /\ s_users # <<>> /\ s_topics # <<>>)
       => Len(s_trace) = Len(s_topics)
    /\ s_pc = "done" =>
         \A pair \in DeliveryPairs : Deliveries(pair[1], pair[2]) # {}

\* The job is over: retrieval raised for the first topic, and the second
\* topic, processed after it, has a digest that was sent to its subscriber.
C23_Witness ==
    /\ s_pc = "done"
    /\ Len(s_trace) = 2
    /\ s_search[s_trace[1].topic].kind = "raise"
    /\ s_trace[2].stored
    /\ \E k \in 1..Len(send_log) : send_log[k].topic = s_trace[2].topic

\* C30: every send_summary call is for a user of the snapshot of active
\* users read at the start whose topic is the topic of the digest sent, and
\* no call is made before every topic has been processed.
C30_SendsOnlyToSubscribers ==
    /\ \A k \in 1..Len(send_log) :
         /\ \E u \in 1..Len(s_users) :
              /\ s_users[u].email = send_log[k].email
              /\ s_users[u].topic = send_log[k].topic
         /\ \E i \in 1..Len(topic_summaries) :
              /\ topic_summaries[i].topic = send_log[k].topic
              /\ topic_summaries[i].summary = send_log[k].summary
    /\ send_log # <<>> => Len(s_trace) = Len(s_topics)
    /\ s_pc = "topics" => send_log = <<>>

\* The digest of a topic has been sent to its subscriber while the snapshot
\* holds users of another topic and of a topic with no digest, and they got
\* no call for it.
C30_Witness ==
    /\ s_pc = "done"
    /\ Len(s_users) = 4
    /\ Len(topic_summaries) = 1
    /\ \E k \in 1..Len(send_log) : send_log[k].email = "u1"
    /\ \A k \in 1..Len(send_log) :
           send_log[k].email \notin {"u3", "u4"}

(***************************************************************************)
(* Claims about ContentExtractor._extract_title (SpecTitle).               *)
(***************************************************************************)
\* The text of the first of the sources whose text has something else than
\* white space, trimmed, or the empty string.
RECURSIVE FirstNonEmptyTitle(_, _)
FirstNonEmptyTitle(sources, i) ==
    IF i > Len(sources) THEN ""
    ELSE IF sources[i].found /\ Strip(sources[i].text) # ""
    THEN Strip(sources[i].text)
    ELSE FirstNonEmptyTitle(sources, i + 1)

\* C24: _extract_title returns the text of the first source, in the order
\* h1, title, og:title, twitter:title, whose text is non-empty, a source
\* with an empty or white-space text being passed over, and the empty
\* string only if no source has a non-empty text.
C24_FirstNonEmptyTitle ==
    x_pc = "done" => x_ret = FirstNonEmptyTitle(x_sources, 1)

(***************************************************************************)
(* Claims about ContentExtractor._clean_content (SpecClean).               *)
(***************************************************************************)
HasWhitespaceRun(s) ==
    \E i \in 1..(Len(s) - 1) :
        IsSpace(SubSeq(s, i, i)) /\ IsSpace(SubSeq(s, i + 1, i + 1))

HasOuterWhitespace(s) ==
    s # "" /\ (IsSpace(SubSeq(s, 1, 1)) \/ IsSpace(SubSeq(s, Len(s), Len(s))))

HasUnwanted(s) ==
    \E i \in 1..Len(s) :
        \/ StartsWithIgnoreCase(s, i, "advertisement")
        \/ StartsWithIgnoreCase(s, i, "sponsored")

HasUrl(s) ==
    \E i \in 1..Len(s) :
        \E head \in {"http://", "https://"} :
            /\ StartsWith(s, i, head)
            /\ i + Len(head) <= Len(s)
            /\ ~IsSpace(SubSeq(s, i + Len(head), i + Len(head)))

\* C25: the result of _clean_content has no run of two or more white-space
\* characters, no leading or trailing white space, no 'Advertisement' or
\* 'Sponsored' in any letter case and no bare http/https URL, and cleaning
\* it again returns it unchanged.
C25_CleanedText ==
    c_pc = "done" =>
        /\ ~HasWhitespaceRun(c_ret)
        /\ ~HasOuterWhitespace(c_ret)
        /\ ~HasUnwanted(c_ret)
        /\ ~HasUrl(c_ret)
        /\ CleanContent(c_ret) = c_ret

(***************************************************************************)
(* Claims about the collection 'users' (SpecUsers).                        *)
(***************************************************************************)
\* C28: no two stored user records have the same normalized (trimmed,
\* lower-cased) email.
C28_UniqueEmails ==
    \A user, other \in users :
        LowerText(Strip(user.email)) = LowerText(Strip(other.email))
        => user = other

\* C29: the number of stored user records never exceeds MAX_USERS.
C29_UserLimit == Cardinality(users) <= MaxUsers

====
